---- MODULE Spec2Model ----
(***************************************************************************)
(* explainshell: the command-line tokenizer and recursive-descent parser   *)
(* of explainshell/parser.py (CommandLineParser, tokenize_command_line,    *)
(* parse_command_line, dump, NodeVisitor).                                 *)
(*                                                                         *)
(* A source string is a sequence of one-character strings; offsets are     *)
(* 0-based as in Python, so the character at offset k is src[k + 1].       *)
(* Python's None is the one-element sequence NoneT, which no text equals.  *)
(***************************************************************************)
EXTENDS Integers, Sequences, FiniteSets, TLC

VARIABLES source, posix, pc, parser, tokens, outcome, tree, part, dumps, visits,
          replay, manpage, mapping, nextid, found

\* The variables of the parser and those of the store.
parservars ==
    <<source, posix, pc, parser, tokens, outcome, tree, part, dumps, visits, replay>>

storevars == <<manpage, mapping, nextid, found>>

vars == <<parservars, storevars>>

\* ------------------------------------------------------------------ bounds
MaxLen == 4
RedirLen == 6
MaxTokens == 7
MaxDumps == 2
TokenLen == 3
MaxAdds == 3
RunLen == 5

\* ------------------------------------------------------- character classes
NoneT == <<"None">>

whitespace == {" "}
quotes == {"'", "\""}
control == {"(", ")", ";", "<", ">", "|", "&", "{", "}", "!"}
digits == {"0", "1", "2"}

At(src, k) == src[k + 1]

Slice(src, a, b) == SubSeq(src, a + 1, b)

DigitVal(c) == CASE c = "0" -> 0 [] c = "1" -> 1 [] c = "2" -> 2 [] OTHER -> 0

\* int(t) succeeds exactly on a non-empty run of decimal digits (the
\* alphabet holds no sign and no blank inside a token).
IsInt(t) == t # NoneT /\ Len(t) > 0 /\ \A k \in 1..Len(t) : t[k] \in digits

RECURSIVE IntOf(_)
IntOf(t) == IF Len(t) = 0 THEN 0
            ELSE 10 * IntOf(SubSeq(t, 1, Len(t) - 1)) + DigitVal(t[Len(t)])

\* The texts ts one after the other.
RECURSIVE Concat(_)
Concat(ts) == IF Len(ts) = 0 THEN <<>> ELSE ts[1] \o Concat(Tail(ts))

RECURSIVE Join(_)
Join(t) == IF Len(t) = 0 THEN "" ELSE t[1] \o Join(Tail(t))

\* --------------------------------------------------------------- the lexer
\* shell_shlex(source, posix, control=True): i is the offset of the next
\* character to read (a pushed-back character counts as unread), pbchars
\* the characters read ahead and pushed back, pushback the tokens pushed
\* back by push_token, token_type the kind of the last token read ('a', 'c'
\* or a quote), preceding the blank before it ('' when there is none).
\* tokstart and tokend are the offsets in the source of the raw token
\* returned last.
LexInit == [i |-> 0, pbchars |-> <<>>, pushback |-> <<>>, token_type |-> "",
            preceding |-> "", tokstart |-> 0, tokend |-> 0]

RECURSIVE SkipWs(_, _)
SkipWs(src, k) == IF k < Len(src) /\ At(src, k) \in whitespace
                  THEN SkipWs(src, k + 1) ELSE k

RECURSIVE ControlEnd(_, _)
ControlEnd(src, k) == IF k < Len(src) /\ At(src, k) \in control
                      THEN ControlEnd(src, k + 1) ELSE k

\* Offset of the quote closing the one at offset k - 1, or -1.
RECURSIVE ClosingQuote(_, _, _)
ClosingQuote(src, k, q) == IF k >= Len(src) THEN -1
                           ELSE IF At(src, k) = q THEN k
                           ELSE ClosingQuote(src, k + 1, q)

\* A plain run from offset k: word characters, and quoted stretches that
\* posix mode unwraps (non-posix keeps a quote inside a word as a plain
\* character).  inq is the open quote ("" outside quotes).
RECURSIVE ScanWord(_, _, _, _, _)
ScanWord(src, px, k, inq, acc) ==
    IF k >= Len(src)
    THEN [ok |-> inq = "", t |-> acc, stop |-> k]
    ELSE LET c == At(src, k) IN
         IF inq # ""
         THEN IF c = inq THEN ScanWord(src, px, k + 1, "", acc)
              ELSE ScanWord(src, px, k + 1, inq, Append(acc, c))
         ELSE IF c \in whitespace \/ c \in control
              THEN [ok |-> TRUE, t |-> acc, stop |-> k]
         ELSE IF c \in quotes /\ px THEN ScanWord(src, px, k + 1, c, acc)
         ELSE ScanWord(src, px, k + 1, "", Append(acc, c))

\* Where reading resumes after a token that stopped at offset e: a blank
\* ending the token is consumed, any other character is pushed back.
AfterStop(src, L, e, tt, t, s, pre) ==
    LET blank == e < Len(src) /\ At(src, e) \in whitespace
        more  == e < Len(src) /\ ~blank
    IN [ok |-> TRUE, t |-> t,
        lex |-> [L EXCEPT !.i = IF blank THEN e + 1 ELSE e,
                          !.pbchars = IF more THEN <<At(src, e)>> ELSE <<>>,
                          !.token_type = tt, !.preceding = pre,
                          !.tokstart = s, !.tokend = e]]

\* The blank before offset s ('' when there is none).
Preceding(src, s) == IF s > 0 /\ At(src, s - 1) \in whitespace THEN " " ELSE ""

\* A raw token that the lexer cannot finish: ValueError.
NoClosingQuotation(L) == [ok |-> FALSE, t |-> <<>>, lex |-> L]

\* The plain run w read from offset s.
word_token(src, L, s, w) ==
    IF ~w.ok THEN NoClosingQuotation(L)
    ELSE AfterStop(src, L, w.stop, "a", w.t, s, Preceding(src, s))

\* The non-posix quoted string from offset s whose closing quote is at q.
quoted_token(src, L, s, q) ==
    IF q < 0 THEN NoClosingQuotation(L)
    ELSE [ok |-> TRUE, t |-> Slice(src, s, q + 1),
          lex |-> [L EXCEPT !.i = q + 1, !.pbchars = <<>>,
                            !.token_type = At(src, s), !.preceding = Preceding(src, s),
                            !.tokstart = s, !.tokend = q + 1]]

\* The raw token that starts at offset s, the first offset that holds no
\* blank: end-of-input is None in posix mode and '' otherwise.
read_at(src, px, L, s) ==
    IF s >= Len(src)
    THEN [ok |-> TRUE, t |-> IF px THEN NoneT ELSE <<>>,
          lex |-> [L EXCEPT !.i = Len(src), !.pbchars = <<>>,
                            !.preceding = Preceding(src, s),
                            !.tokstart = Len(src), !.tokend = Len(src)]]
    ELSE IF At(src, s) \in control
    THEN AfterStop(src, L, ControlEnd(src, s), "c",
                   Slice(src, s, ControlEnd(src, s)), s, Preceding(src, s))
    ELSE IF At(src, s) \in quotes /\ ~px
    THEN quoted_token(src, L, s, ClosingQuote(src, s + 1, At(src, s)))
    ELSE word_token(src, L, s, ScanWord(src, px, s, "", <<>>))

read_token(src, px, L) == read_at(src, px, L, SkipWs(src, L.i))

RECURSIVE SumLen(_)
SumLen(ts) == IF Len(ts) = 0 THEN 0 ELSE Len(ts[1]) + SumLen(Tail(ts))

\* get_token: a pushed-back token first (the kind and the preceding flag of
\* the last read stay as they are), else a token read from the source.
get_token(src, px, L) ==
    IF Len(L.pushback) > 0
    THEN [ok |-> TRUE, t |-> Head(L.pushback),
          lex |-> [L EXCEPT !.pushback = Tail(L.pushback),
                            !.tokstart = L.tokend - SumLen(L.pushback),
                            !.tokend = L.tokend]]
    ELSE read_token(src, px, L)

\* push_token(tok): onto the front of the pushback queue.
push_token(L, tok) == [L EXCEPT !.pushback = <<tok>> \o L.pushback]

\* for other in valid: self.lex.push_token(other), without reversed().
RECURSIVE PushForward(_, _)
PushForward(L, valid) ==
    IF Len(valid) = 0 THEN L
    ELSE PushForward(push_token(L, valid[1]), Tail(valid))

\* for other in reversed(valid): self.lex.push_token(other)
RECURSIVE PushReversed(_, _)
PushReversed(L, valid) ==
    IF Len(valid) = 0 THEN L
    ELSE PushReversed(push_token(L, valid[Len(valid)]), SubSeq(valid, 1, Len(valid) - 1))

\* ------------------------------------------------------------ the classifier
permitted_tokens == {<<"&", "&">>, <<"|", "|">>, <<"|", "&">>, <<">", ">">>}

\* The loop of get_valid_controls over the characters of t from index k;
\* last is <<>> for Python's None, else the one character held back.
RECURSIVE ValidLoop(_, _, _, _)
ValidLoop(t, k, last, result) ==
    IF k > Len(t)
    THEN IF last # <<>> THEN result \o <<last>> ELSE result
    ELSE LET c == t[k] IN
         IF last # <<>>
         THEN IF (last \o <<c>>) \in permitted_tokens
              THEN ValidLoop(t, k + 1, <<>>, result \o <<last \o <<c>>>>)
              ELSE ValidLoop(t, k + 1, <<>>, result \o <<last, <<c>>>>)
         ELSE IF c \notin {">", "&", "|"}
              THEN ValidLoop(t, k + 1, <<>>, result \o <<<<c>>>>)
         ELSE ValidLoop(t, k + 1, <<c>>, result)

\* get_valid_controls that also returns a run of two characters whole.
get_valid_controls_keeps_two(t) ==
    IF Len(t) <= 2 THEN <<t>> ELSE ValidLoop(t, 1, <<>>, <<>>)

get_valid_controls(t) == IF Len(t) = 1 THEN <<t>> ELSE ValidLoop(t, 1, <<>>, <<>>)

token(type, t, preceding, start, end) ==
    [type |-> type, t |-> t, preceding |-> preceding, start |-> start, end |-> end]

NoError == [type |-> "none", msg |-> "", source |-> <<>>, offset |-> 0]

ParsingError(msg, src, offset) ==
    [type |-> "ParsingError", msg |-> msg, source |-> src, offset |-> offset]

\* A failure that is not errors.ParsingError (AssertionError, AttributeError,
\* IndexError, KeyError): it carries no source and no offset.
PyError(type, msg) == [type |-> type, msg |-> msg, source |-> <<>>, offset |-> -1]

\* parser.py:176-178 and 180-182, the two scans over the source.
RECURSIVE SkipNonWs(_, _)
SkipNonWs(src, e) == IF e < Len(src) /\ At(src, e) \notin whitespace
                     THEN SkipNonWs(src, e + 1) ELSE e

\* The parser object: the lexer, lexpos, the last consumed token and the
\* lookahead (NoToken while there is none).
NoToken == [type |-> "unset", t |-> NoneT, preceding |-> "", start |-> 0, end |-> 0]

ParserInit == [lex |-> LexInit, lexpos |-> 0, token |-> NoToken, peek |-> NoToken]

\* The end offset of a token whose raw text t has kind tt, before the scans.
RawEnd(src, P, tt, t) ==
    IF tt \in quotes THEN P.lexpos + Len(t)
    ELSE IF tt = "a"
         THEN P.lexpos + Len(t) + (IF At(src, P.lexpos) \in quotes THEN 1 ELSE 0)
    ELSE P.lexpos

\* parser.py:167-174: the control run t is split, its first operator is the
\* token and the others are pushed back.
control_token(src, P, L, valid) ==
    [err |-> NoError,
     tok |-> token(Join(Head(valid)), Head(valid), L.preceding, P.lexpos,
                   P.lexpos + Len(Head(valid))),
     p |-> [P EXCEPT !.lex = PushReversed(L, Tail(valid)),
                     !.lexpos = SkipWs(src, P.lexpos + Len(Head(valid)))]]

\* parser.py:147-159 and 175-184: a quoted or a plain token that ends at
\* endpos.
text_token(src, P, L, type, t, endpos) ==
    [err |-> NoError,
     tok |-> token(type, t, L.preceding, P.lexpos, endpos),
     p |-> [P EXCEPT !.lex = L, !.lexpos = SkipWs(src, endpos)]]

\* next_token once the lexer has returned g.
classify(src, P, g) ==
    IF ~g.ok
    THEN [err |-> ParsingError("No closing quotation", src, P.lexpos),
          tok |-> NoToken, p |-> P]
    ELSE IF g.t = NoneT \/ g.t = <<>>
    THEN [err |-> NoError,
          tok |-> token("None", g.t, g.lex.preceding, P.lexpos, P.lexpos),
          p |-> [P EXCEPT !.lex = g.lex, !.lexpos = SkipWs(src, P.lexpos)]]
    ELSE IF g.lex.token_type = "a" /\ P.lexpos >= Len(src)
    THEN [err |-> PyError("IndexError", "string index out of range"),
          tok |-> NoToken, p |-> [P EXCEPT !.lex = g.lex]]
    ELSE IF g.lex.token_type = "c"
    THEN control_token(src, P, g.lex,
                       IF Len(g.t) > 1 THEN get_valid_controls(g.t) ELSE <<g.t>>)
    ELSE text_token(src, P, g.lex,
                    IF g.lex.token_type \in quotes THEN "word"
                    ELSE IF IsInt(g.t) THEN "number" ELSE "word",
                    IF g.lex.token_type \in quotes THEN SubSeq(g.t, 2, Len(g.t) - 1)
                    ELSE g.t,
                    IF g.lex.pbchars = <<>> \/ g.lex.pbchars[1] \notin control
                    THEN SkipNonWs(src, RawEnd(src, P, g.lex.token_type, g.t))
                    ELSE RawEnd(src, P, g.lex.token_type, g.t))

next_token(src, px, P) == classify(src, P, get_token(src, px, P.lex))

\* ----------------------------------------------------------------- the AST
\* Node(**kwargs): a record of the keyword arguments; pos is <<start, end>>.
\* NoNode is Python's None where a node is expected.
NoNode == [kind |-> "None"]

WordNode(word, pos) == [kind |-> "word", word |-> word, pos |-> pos]

OperatorNode(op, pos) == [kind |-> "operator", op |-> op, pos |-> pos]

NegateNode(pos) == [kind |-> "negate", pos |-> pos]

PipeNode(pipe, pos) == [kind |-> "pipe", pipe |-> pipe, pos |-> pos]

RedirectNode(input, type, output, pos) ==
    [kind |-> "redirect", input |-> input, type |-> type, output |-> output, pos |-> pos]

PartsNode(kind, parts) ==
    [kind |-> kind, parts |-> parts, pos |-> <<parts[1].pos[1], parts[Len(parts)].pos[2]>>]

CompoundNode(group, list, redirects, pos) ==
    [kind |-> "compound", group |-> group, list |-> list, redirects |-> redirects,
     pos |-> pos]

\* ---------------------------------------------------------------- the parser
\* Every parsing method returns [err, p, v]: the failure raised (NoError if
\* none), the parser object after the call and the value returned.
Fail(r) == r.err.type # "none"

Ret(P, v) == [err |-> NoError, p |-> P, v |-> v]

Raise(err, P) == [err |-> err, p |-> P, v |-> NoNode]

\* peek_token once next_token has returned n.
peeked(n) ==
    IF Fail(n) THEN Raise(n.err, n.p)
    ELSE Ret([n.p EXCEPT !.peek = n.tok], n.tok.type)

peek_token(src, px, P) ==
    IF P.peek = NoToken THEN peeked(next_token(src, px, P))
    ELSE Ret(P, P.peek.type)

Got(type) == IF type = "None" THEN "EOF" ELSE type

\* consume once next_token has returned n: tok, the old lookahead, is the
\* current token and must have type tt.
consumed(src, tok, tt, n) ==
    IF Fail(n) THEN Raise(n.err, [n.p EXCEPT !.token = tok])
    ELSE IF tok.type # tt
    THEN Raise(ParsingError("consume: expected " \o tt \o " (got "
                            \o Got(tok.type) \o ")", src, tok.start),
               [n.p EXCEPT !.token = tok, !.peek = n.tok])
    ELSE Ret([n.p EXCEPT !.token = tok, !.peek = n.tok], NoNode)

consume(src, px, P, tt) == consumed(src, P.peek, tt, next_token(src, px, P))

\* parser.py:232, the operators that continue a list.
ListOps == {";", "&", "&&", "||"}

\* parser.py:236, the list operator op, with lookahead tt, ends the list.
Dangling(tt, op) == tt \in {")", "}"} \/ (tt = "None" /\ op \in {";", "&"})

\* parser.py:311-324: the fd word of a redirection whose operator is the
\* lookahead: node is the word that opened the command part.
TakesFd(P, node) ==
    /\ P.peek.preceding = ""
    /\ IsInt(node.word)
    /\ IntOf(node.word) > 0

\* parser.py:330-332: the file name t was consumed (d).
target_filename(t, d) == IF Fail(d) THEN d ELSE Ret(d.p, t)

\* parser.py:337-339: the number n after & was consumed (e).
target_dup(n, e) == IF Fail(e) THEN e ELSE Ret(e.p, <<"&", n>>)

\* parser.py:334-339: the & was consumed (d), a number must follow.
target_after_amp(src, px, d) ==
    IF Fail(d) THEN d
    ELSE IF d.p.peek.type # "number"
    THEN Raise(ParsingError("syntax: number expected after &", src, d.p.peek.start), d.p)
    ELSE target_dup(IntOf(d.p.peek.t), consume(src, px, d.p, "number"))

\* parser.py:326-339: the operator was consumed (c), its target follows.
target_after_operator(src, px, c) ==
    IF Fail(c) THEN c
    ELSE IF c.p.peek.type \notin {"word", "number", "&"}
    THEN Raise(ParsingError("syntax: expecting filename or &", src, c.p.peek.start), c.p)
    ELSE IF c.p.peek.type \in {"word", "number"}
    THEN target_filename(c.p.peek.t, consume(src, px, c.p, c.p.peek.type))
    ELSE target_after_amp(src, px, consume(src, px, c.p, "&"))

\* parser.py:325-339: the operator is consumed, then its target.
redirect_target(src, px, P, tt) ==
    target_after_operator(src, px, consume(src, px, P, tt))

RECURSIVE RedirLoop(_, _, _, _, _)

\* parser.py:340-342: the target r of the redirection whose operator was the
\* lookahead of P has been parsed; the redirect node is appended and the
\* loop goes on, without the word if it gave the fd.
redirect_parsed(src, px, P, node, parts, r) ==
    IF Fail(r) THEN r
    ELSE RedirLoop(src, px, r.p,
                   IF TakesFd(P, node) THEN NoNode ELSE node,
                   Append(parts,
                          RedirectNode(IF TakesFd(P, node) THEN IntOf(node.word) ELSE 1,
                                       P.peek.type, r.v,
                                       <<IF TakesFd(P, node) THEN node.pos[1]
                                         ELSE P.peek.start,
                                         r.p.token.end>>)))

\* The while loop of parse_redirections; v is <<parts, node is None>>.
RedirLoop(src, px, P, node, parts) ==
    IF P.peek.type \notin {">", ">>"} THEN Ret(P, <<parts, node = NoNode>>)
    ELSE IF P.peek.preceding = "" /\ node = NoNode
    THEN Raise(PyError("AttributeError", "'NoneType' object has no attribute 'kind'"), P)
    ELSE IF P.peek.preceding = "" /\ node.kind # "word"
    THEN Raise(PyError("AssertionError", "assert node.kind == 'word'"), P)
    ELSE redirect_parsed(src, px, P, node, parts,
                         redirect_target(src, px, P, P.peek.type))

parse_redirections(src, px, P, node) == RedirLoop(src, px, P, node, <<>>)

\* part_result with the word left out of what is returned whether or not a
\* redirection took it as its fd.
part_result_drops_word(node, r) ==
    IF Fail(r) THEN r ELSE Ret(r.p, r.v[1])

\* parser.py:353-356: the redirections after the word node were parsed (r);
\* the word leads the parts unless a redirection took it.
part_result(node, r) ==
    IF Fail(r) THEN r
    ELSE IF r.v[2] THEN Ret(r.p, r.v[1])
    ELSE Ret(r.p, <<node>> \o r.v[1])

\* parser.py:352: the word node was consumed (c).
part_after_word(src, px, node, c) ==
    IF Fail(c) THEN c
    ELSE part_result(node, parse_redirections(src, px, c.p, node))

parse_command_part(src, px, P) ==
    part_after_word(src, px, WordNode(P.peek.t, <<P.peek.start, P.peek.end>>),
                    consume(src, px, P,
                            IF P.peek.type = "word" THEN "word" ELSE "number"))

RECURSIVE SimpleLoop(_, _, _, _)

\* parser.py:296 and 299: parse_command_part returned r, its parts extend
\* the command's.
simple_next(src, px, parts, r) ==
    IF Fail(r) THEN r ELSE SimpleLoop(src, px, r.p, parts \o r.v)

\* parser.py:298-299, the while loop of parse_simple_command.
SimpleLoop(src, px, P, parts) ==
    IF P.peek.type \notin {"word", "number"} THEN Ret(P, parts)
    ELSE simple_next(src, px, parts, parse_command_part(src, px, P))

\* parser.py:301-303: the command node over the parts l.v; parts[0] of no
\* parts is an IndexError.
command_node(l) ==
    IF Fail(l) THEN l
    ELSE IF Len(l.v) = 0
    THEN Raise(PyError("IndexError", "list index out of range"), l.p)
    ELSE Ret(l.p, PartsNode("command", l.v))

parse_simple_command(src, px, P) ==
    command_node(simple_next(src, px, <<>>, parse_command_part(src, px, P)))

RECURSIVE parse_list(_, _, _)
RECURSIVE ListLoop(_, _, _, _)
RECURSIVE parse_pipeline(_, _, _)
RECURSIVE PipeLoop(_, _, _, _)
RECURSIVE parse_command(_, _, _)

Closer(tt) == IF tt = "(" THEN ")" ELSE "}"

\* parser.py:288-293: the redirections after the compound node were parsed.
compound_node(node, r) ==
    IF Fail(r) THEN r
    ELSE Ret(r.p, IF Len(r.v[1]) > 0
                  THEN [node EXCEPT !.redirects = r.v[1],
                                    !.pos = <<node.pos[1], r.v[1][Len(r.v[1])].pos[2]>>]
                  ELSE node)

\* parser.py:287-288: the closer was consumed (d).
compound_closed(src, px, tt, s, list, d) ==
    IF Fail(d) THEN d
    ELSE compound_node(CompoundNode(tt, list, <<>>, <<s, d.p.token.end>>),
                       parse_redirections(src, px, d.p,
                           CompoundNode(tt, list, <<>>, <<s, d.p.token.end>>)))

\* parser.py:277-278 and 282-283: the list inside the group was parsed (l).
compound_list(src, px, tt, s, l) ==
    IF Fail(l) THEN l
    ELSE compound_closed(src, px, tt, s, l.v, consume(src, px, l.p, Closer(tt)))

\* parser.py:275-277 and 280-282: the opener was consumed (c).
compound_opened(src, px, tt, c) ==
    IF Fail(c) THEN c
    ELSE compound_list(src, px, tt, c.p.token.start, parse_list(src, px, c.p))

parse_command(src, px, P) ==
    IF P.peek.type \notin {"(", "{"} THEN parse_simple_command(src, px, P)
    ELSE compound_opened(src, px, P.peek.type, consume(src, px, P, P.peek.type))

\* parser.py:261-264: the command after the pipe was parsed (r).
pipe_next(src, px, parts, pipe, r) ==
    IF Fail(r) THEN r ELSE PipeLoop(src, px, r.p, parts \o <<pipe, r.v>>)

\* parser.py:259-261: the pipe tt was consumed (c).
pipe_consumed(src, px, tt, parts, c) ==
    IF Fail(c) THEN c
    ELSE pipe_next(src, px, parts, PipeNode(tt, <<c.p.token.start, c.p.token.end>>),
                   parse_command(src, px, c.p))

\* parser.py:258-264, the while loop of parse_pipeline.
PipeLoop(src, px, P, parts) ==
    IF P.peek.type \notin {"|", "|&"} THEN Ret(P, parts)
    ELSE pipe_consumed(src, px, P.peek.type, parts, consume(src, px, P, P.peek.type))

\* parser.py:265-270: the pipeline node over the parts l.v.
pipeline_node(l) ==
    IF Fail(l) THEN l
    ELSE Ret(l.p, IF Len(l.v) = 1 THEN l.v[1] ELSE PartsNode("pipeline", l.v))

\* parser.py:256-258: the first command was parsed (r); head holds the
\* negate node, if any.
pipeline_first(src, px, head, r) ==
    IF Fail(r) THEN r
    ELSE pipeline_node(PipeLoop(src, px, r.p, Append(head, r.v)))

\* parser.py:253-256: the ! was consumed (c).
pipeline_negated(src, px, c) ==
    IF Fail(c) THEN c
    ELSE pipeline_first(src, px, <<NegateNode(<<c.p.token.start, c.p.token.end>>)>>,
                        parse_command(src, px, c.p))

parse_pipeline(src, px, P) ==
    IF P.peek.type = "!" THEN pipeline_negated(src, px, consume(src, px, P, "!"))
    ELSE pipeline_first(src, px, <<>>, parse_command(src, px, P))

\* parser.py:239-241: the pipeline after the operator was parsed (r).
list_next(src, px, parts, opnode, r) ==
    IF Fail(r) THEN r ELSE ListLoop(src, px, r.p, parts \o <<opnode, r.v>>)

\* parser.py:233-239: the list operator op was consumed (c).
list_op_consumed(src, px, op, parts, c) ==
    IF Fail(c) THEN c
    ELSE IF Dangling(c.p.peek.type, op)
    THEN Ret(c.p, Append(parts, OperatorNode(op, <<c.p.token.start, c.p.token.end>>)))
    ELSE list_next(src, px, parts,
                   OperatorNode(op, <<c.p.token.start, c.p.token.end>>),
                   parse_pipeline(src, px, c.p))

\* parser.py:232-242, the while loop of parse_list.
ListLoop(src, px, P, parts) ==
    IF P.peek.type \notin ListOps THEN Ret(P, parts)
    ELSE list_op_consumed(src, px, P.peek.type, parts,
                          consume(src, px, P, P.peek.type))

\* parser.py:243-248: the list node over the parts l.v.
list_node(l) ==
    IF Fail(l) THEN l
    ELSE Ret(l.p, IF Len(l.v) = 1 THEN l.v[1] ELSE PartsNode("list", l.v))

\* parser.py:230-232: the first pipeline was parsed (r).
list_first(src, px, r) ==
    IF Fail(r) THEN r ELSE list_node(ListLoop(src, px, r.p, <<r.v>>))

parse_list(src, px, P) == list_first(src, px, parse_pipeline(src, px, P))

\* parser.py:226-227: the lookahead was read (k).
parse_after_peek(src, px, k) == IF Fail(k) THEN k ELSE parse_list(src, px, k.p)

parse(src, px, P) == parse_after_peek(src, px, peek_token(src, px, P))

\* ------------------------------------------------------------------- dump
\* The attributes of a node in sorted order, without kind.
Fields(node) == CASE node.kind = "word" -> <<"pos", "word">>
                  [] node.kind = "operator" -> <<"op", "pos">>
                  [] node.kind = "negate" -> <<"pos">>
                  [] node.kind = "pipe" -> <<"pipe", "pos">>
                  [] node.kind = "redirect" -> <<"input", "output", "pos", "type">>
                  [] node.kind = "compound" -> <<"group", "list", "pos", "redirects">>
                  [] OTHER -> <<"parts", "pos">>

IsNodeField(f) == f = "list"

IsListField(f) == f \in {"parts", "redirects"}

\* Python's truth value of an attribute: an empty list and an empty text are
\* false, a node, a number >= 1 and a pair are true.
Truthy(f, v) == IF IsListField(f) THEN Len(v) > 0
                ELSE IF f = "word" THEN Len(v) > 0 /\ v # NoneT
                ELSE TRUE

\* kind.title() + 'Node'
Title(kind) == CASE kind = "word" -> "WordNode"
                 [] kind = "operator" -> "OperatorNode"
                 [] kind = "negate" -> "NegateNode"
                 [] kind = "pipe" -> "PipeNode"
                 [] kind = "redirect" -> "RedirectNode"
                 [] kind = "compound" -> "CompoundNode"
                 [] kind = "command" -> "CommandNode"
                 [] kind = "pipeline" -> "PipelineNode"
                 [] kind = "list" -> "ListNode"
                 [] OTHER -> kind \o "Node"

\* _format(node, level) of a Node that still has its kind: the text, as the
\* nested sequence <<title, level, <<field, text>>, ...>>.
RECURSIVE Format(_, _)
RECURSIVE FormatFields(_, _, _, _)
RECURSIVE FormatList(_, _, _)
Format(node, level) ==
    LET lv == IF node.kind = "list" /\ level > 0 THEN level + 1 ELSE level
    IN <<Title(node.kind), IF node.kind = "list" THEN lv ELSE 0>>
       \o FormatFields(node, Fields(node), 1, lv)

FormatFields(node, fs, k, level) ==
    IF k > Len(fs) THEN <<>>
    ELSE LET f == fs[k]
             v == node[f]
             text == IF IsNodeField(f) THEN Format(v, level)
                     ELSE IF IsListField(f) THEN <<"[", level>> \o FormatList(v, 1, level + 2)
                     ELSE <<v>>
         IN (IF Truthy(f, v) THEN <<<<f, text>>>> ELSE <<>>)
            \o FormatFields(node, fs, k + 1, level)

FormatList(xs, k, level) ==
    IF k > Len(xs) THEN <<>>
    ELSE <<Format(xs[k], level)>> \o FormatList(xs, k + 1, level)

\* kind = d.pop('kind') on the node's own __dict__: the node loses its kind,
\* and so does every node _format recurses into.
RECURSIVE Popped(_)
Popped(node) ==
    [f \in DOMAIN node \ {"kind"} |->
        IF IsNodeField(f) THEN Popped(node[f])
        ELSE IF IsListField(f) THEN [k \in DOMAIN node[f] |-> Popped(node[f][k])]
        ELSE node[f]]

HasKind(node) == "kind" \in DOMAIN node

\* dump(node): [err, text, node], node being the tree after the call.
dump(node) ==
    IF ~HasKind(node)
    THEN [err |-> PyError("KeyError", "'kind'"), text |-> <<>>, node |-> node]
    ELSE [err |-> NoError, text |-> Format(node, 0), node |-> Popped(node)]

\* NodeVisitor.visit(node): the failure it ends with, "none" if it returns.
RECURSIVE visit(_)
RECURSIVE VisitAll(_, _)

\* The visit of xs[k] ended with r: a failure ends the walk.
visit_rest(r, xs, k) == IF r # "none" THEN r ELSE VisitAll(xs, k)

visit(node) ==
    IF ~HasKind(node) THEN "AttributeError"
    ELSE IF node.kind \in {"list", "pipeline", "command"} THEN VisitAll(node.parts, 1)
    ELSE IF node.kind = "compound"
    THEN visit_rest(visit(node.list), node.redirects, 1)
    ELSE IF node.kind \in {"operator", "negate", "pipe", "redirect", "word"} THEN "none"
    ELSE "ValueError"

VisitAll(xs, k) ==
    IF k > Len(xs) THEN "none" ELSE visit_rest(visit(xs[k]), xs, k + 1)

\* ---------------------------------------------------------------- the store
\* A name is its text cut into pieces, the last of which is its suffix:
\* <<"tar">> is 'tar' and <<"tar", ".1", ".gz">> is 'tar.1.gz'.
endswith(name, suffix) == Len(name) > 0 /\ name[Len(name)] = suffix

\* A document of the manpage collection (the fields the store's lookups
\* read) and a document of the mapping collection.
Doc(id, src, aliases) == [id |-> id, source |-> src, aliases |-> aliases]

Mapping(src, dst, score) == [src |-> src, dst |-> dst, score |-> score]

\* What find_one returns when no document matches: None.
NoDoc == Doc(0, <<>>, <<>>)

\* collection.find_one({'source': src}): the first match in natural order.
RECURSIVE find_one(_, _)
find_one(coll, src) ==
    IF Len(coll) = 0 THEN NoDoc
    ELSE IF coll[1].source = src THEN coll[1]
    ELSE find_one(Tail(coll), src)

\* self.manpage.remove(id)
remove_id(coll, id) ==
    LET Keep(d) == d.id # id IN SelectSeq(coll, Keep)

\* self.mapping.remove({'dst': id})
remove_dst(maps, id) ==
    LET Keep(x) == x.dst # id IN SelectSeq(maps, Keep)

\* store.addmapping(src, dst, score)
addmapping(maps, src, dst, score) == Append(maps, Mapping(src, dst, score))

\* for alias, score in m.aliases: self.addmapping(alias, o, score)
RECURSIVE AddAliases(_, _, _)
AddAliases(maps, aliases, o) ==
    IF Len(aliases) = 0 THEN maps
    ELSE AddAliases(addmapping(maps, aliases[1][1], o, aliases[1][2]), Tail(aliases), o)

\* The store: its two collections and the next _id.
Store(pages, maps, id) == [manpage |-> pages, mapping |-> maps, nextid |-> id]

\* addmanpage that leaves the mappings of the document it replaces.
addmanpage_keeps_mappings(S, m, d) ==
    Store(Append(IF d # NoDoc THEN remove_id(S.manpage, d.id) ELSE S.manpage,
                 Doc(S.nextid, m.source, m.aliases)),
          AddAliases(S.mapping, m.aliases, S.nextid),
          S.nextid + 1)

\* store.addmanpage(m) on the store S, d being what find_one gave for
\* m.source: the store after the call.
addmanpage(S, m, d) ==
    Store(Append(IF d # NoDoc THEN remove_id(S.manpage, d.id) ELSE S.manpage,
                 Doc(S.nextid, m.source, m.aliases)),
          AddAliases(IF d # NoDoc THEN remove_dst(S.mapping, d.id) ELSE S.mapping,
                     m.aliases, S.nextid),
          S.nextid + 1)

\* dict(((d['dst'], d['score']) for d in cursor)): a later mapping of the
\* same dst replaces an earlier one.
RECURSIVE Dsts(_, _)
Dsts(maps, dsts) ==
    IF Len(maps) = 0 THEN dsts
    ELSE Dsts(Tail(maps),
              [k \in DOMAIN dsts \cup {maps[1].dst} |->
                  IF k = maps[1].dst THEN maps[1].score ELSE dsts[k]])

\* dsts.get(id, 0)
ScoreOf(dsts, id) == IF id \in DOMAIN dsts THEN dsts[id] ELSE 0

\* One step of list.sort(key=..., reverse=True), which is stable: x goes
\* behind the elements whose key is at least its own.
RECURSIVE InsertReverse(_, _, _)
InsertReverse(sorted, x, dsts) ==
    IF Len(sorted) = 0 THEN <<x>>
    ELSE IF ScoreOf(dsts, sorted[1].id) >= ScoreOf(dsts, x.id)
    THEN <<sorted[1]>> \o InsertReverse(Tail(sorted), x, dsts)
    ELSE <<x>> \o sorted

\* results.sort(key=lambda x: dsts.get(x[0], 0)) without reverse=True.
RECURSIVE sort_ascending(_, _, _)
sort_ascending(results, sorted, dsts) ==
    IF Len(results) = 0 THEN sorted
    ELSE sort_ascending(Tail(results),
                        InsertReverse(sorted, results[1],
                                      [k \in DOMAIN dsts |-> 0 - dsts[k]]),
                        dsts)

\* results.sort(key=lambda x: dsts.get(x[0], 0), reverse=True)
RECURSIVE sort_reverse(_, _, _)
sort_reverse(results, sorted, dsts) ==
    IF Len(results) = 0 THEN sorted
    ELSE sort_reverse(Tail(results), InsertReverse(sorted, results[1], dsts), dsts)

\* What findmanpage gives its caller: the pages returned, or the failure.
Found(name, pages) == [called |-> TRUE, name |-> name, err |-> "none", pages |-> pages]

ProgramDoesNotExist(name) ==
    [called |-> TRUE, name |-> name, err |-> "ProgramDoesNotExist", pages |-> <<>>]

\* store.py:233-240: the exact match by source, d being what find_one gave.
find_by_source(name, d) ==
    IF d = NoDoc THEN ProgramDoesNotExist(name) ELSE Found(name, <<d>>)

\* store.py:243-263 with section=None: cursor holds the mappings of name.
find_by_mapping(S, name, cursor) ==
    IF Len(cursor) = 0 THEN ProgramDoesNotExist(name)
    ELSE LET dsts == Dsts(cursor, <<>>)
             In(d) == d.id \in DOMAIN dsts
         IN Found(name, sort_reverse(SelectSeq(S.manpage, In), <<>>, dsts))

\* store.findmanpage(name) on the store S.
findmanpage(S, name) ==
    IF endswith(name, ".gz") THEN find_by_source(name, find_one(S.manpage, name))
    ELSE LET Src(x) == x.src = name
         IN find_by_mapping(S, name, SelectSeq(S.mapping, Src))

\* ------------------------------------------------------ the state machine
\* The characters sources are drawn from: Alphabet for the whole grammar
\* (without its quote for the sources of InitPlain), RedirAlphabet for the
\* longer sources that chain redirections, TokenAlphabet for the sources
\* whose tokenizing is followed to its end.
Alphabet == {"a", "2", " ", ">", "&", "(", ")", ";", "|", "'"}

RedirAlphabet == {"a", "2", " ", ">"}

TokenAlphabet == {"a", " ", ">", "'"}

Sources(alphabet, n) == UNION {[1..m -> alphabet] : m \in 1..n}

NoOutcome == [err |-> NoError, p |-> ParserInit, v |-> NoNode]

\* Nothing has been fed back through the control-run splitter yet.
NoReplay == [done |-> FALSE, valid |-> <<>>, remainder |-> <<>>, each |-> <<>>, rest |-> <<>>]

\* store.__init__ on a database that holds nothing yet: the collections
\* manpage and mapping in insertion order, the next _id the database hands
\* out, and what the last call of findmanpage gave its caller.
NoResult == [called |-> FALSE, name |-> <<>>, err |-> "none", pages |-> <<>>]

StoreInit ==
    /\ manpage = <<>>
    /\ mapping = <<>>
    /\ nextid = 1
    /\ found = NoResult

InitOver(sources, modes) ==
    /\ source \in sources
    /\ posix \in modes
    /\ pc = "start"
    /\ parser = ParserInit
    /\ tokens = <<>>
    /\ outcome = NoOutcome
    /\ tree = NoNode
    /\ part = <<>>
    /\ dumps = <<>>
    /\ visits = <<>>
    /\ replay = NoReplay
    /\ StoreInit

Init == InitOver(Sources(Alphabet, MaxLen), BOOLEAN)

InitPlain == InitOver(Sources(Alphabet \ quotes, MaxLen), {TRUE})

InitRedirect == InitOver(Sources(RedirAlphabet, RedirLen), {TRUE})

InitTokenize == InitOver(Sources(TokenAlphabet, TokenLen), BOOLEAN)

\* The sources that are one control run over the characters the splitter
\* pairs.
InitControl == InitOver(Sources({">", "&", "|"}, RunLen), {TRUE})

\* parser.py:362-367: next_token returned n; a token whose text is None
\* ends the loop, any other is appended.
Tokenized(n) ==
    /\ parser' = n.p
    /\ IF Fail(n)
       THEN /\ pc' = "tokenize_raised"
            /\ outcome' = [outcome EXCEPT !.err = n.err, !.p = n.p]
            /\ tokens' = tokens
       ELSE IF n.tok.t = NoneT
       THEN pc' = "tokenized" /\ tokens' = tokens /\ outcome' = outcome
       ELSE pc' = "tokenize" /\ tokens' = Append(tokens, n.tok) /\ outcome' = outcome

\* One iteration of the loop of tokenize_command_line.
TokenizeStep ==
    /\ pc \in {"start", "tokenize"}
    /\ Len(tokens) < MaxTokens
    /\ \E n \in {next_token(source, posix, parser)} : Tokenized(n)
    /\ UNCHANGED <<source, posix, tree, part, dumps, visits, replay>>
    /\ UNCHANGED storevars

\* parse_command_line(source, posix): the AST, or the failure raised.
ParseCommandLine ==
    /\ pc = "start"
    /\ outcome' = parse(source, posix, ParserInit)
    /\ parser' = outcome'.p
    /\ pc' = IF Fail(outcome') THEN "parse_raised" ELSE "parsed"
    /\ tree' = IF Fail(outcome') THEN NoNode ELSE outcome'.v
    /\ UNCHANGED <<source, posix, tokens, part, dumps, visits, replay>>
    /\ UNCHANGED storevars

\* parse_command_part() called on a parser that has its lookahead: the list
\* it returns, or the failure raised.
part_after_peek(src, px, k) ==
    IF Fail(k) THEN k ELSE parse_command_part(src, px, k.p)

PartReturned(r) ==
    /\ outcome' = [r EXCEPT !.v = NoNode]
    /\ parser' = r.p
    /\ pc' = IF Fail(r) THEN "part_raised" ELSE "part"
    /\ part' = IF Fail(r) THEN <<>> ELSE r.v

CommandPart ==
    /\ pc = "start"
    /\ PartReturned(part_after_peek(source, posix,
                                    peek_token(source, posix, ParserInit)))
    /\ UNCHANGED <<source, posix, tokens, tree, dumps, visits, replay>>
    /\ UNCHANGED storevars

\* dump returned d: the caller keeps the text or the failure, and the tree
\* is what the call left of it.
Dumped(d) ==
    /\ dumps' = Append(dumps, [err |-> d.err, text |-> d.text])
    /\ tree' = d.node

\* dump(ast) on the tree the caller holds.
Dump ==
    /\ pc = "parsed"
    /\ Len(dumps) < MaxDumps
    /\ Dumped(dump(tree))
    /\ UNCHANGED <<source, posix, pc, parser, tokens, outcome, part, visits, replay>>
    /\ UNCHANGED storevars

\* NodeVisitor().visit(ast) on the tree the caller holds.
Visit ==
    /\ pc = "parsed"
    /\ visits' = <<visit(tree)>>
    /\ visits' # visits
    /\ UNCHANGED <<source, posix, pc, parser, tokens, outcome, tree, part, dumps, replay>>
    /\ UNCHANGED storevars

\* The names the store is asked for: programs, and paths of man pages.
Programs == {<<"tar">>, <<"bsdtar">>}

Paths == {<<"tar", ".1", ".gz">>, <<"tar", ".8", ".gz">>}

\* The names a man page may have as aliases, in the order the list of its
\* aliases holds them, and the scores of an alias.
AliasNames == <<<<"tar">>, <<"bsdtar">>, <<"tar", ".1", ".gz">>>>

Scores == {1, 10}

\* m.aliases: (alias, score) pairs, no alias twice.
RECURSIVE AliasList(_, _)
AliasList(f, k) ==
    IF k > Len(AliasNames) THEN <<>>
    ELSE (IF f[k] = 0 THEN <<>> ELSE <<<<AliasNames[k], f[k]>>>>) \o AliasList(f, k + 1)

Manpages ==
    {[source |-> src, aliases |-> AliasList(f, 1)] :
        src \in Paths, f \in [DOMAIN AliasNames -> Scores \cup {0}]}

\* store.addmanpage(m); the caller's earlier lookup is forgotten.
Added(S) ==
    /\ manpage' = S.manpage
    /\ mapping' = S.mapping
    /\ nextid' = S.nextid
    /\ found' = NoResult

AddManpage ==
    /\ nextid <= MaxAdds
    /\ \E m \in Manpages :
          Added(addmanpage(Store(manpage, mapping, nextid), m,
                           find_one(manpage, m.source)))
    /\ UNCHANGED parservars

\* store.findmanpage(name), without a section.
FindManpage ==
    /\ \E name \in Programs \cup Paths :
          found' = findmanpage(Store(manpage, mapping, nextid), name)
    /\ UNCHANGED <<manpage, mapping, nextid>>
    /\ UNCHANGED parservars

NextStore == AddManpage \/ FindManpage

Next == TokenizeStep \/ ParseCommandLine \/ CommandPart \/ Dump \/ Visit

Spec == Init /\ [][Next]_vars

SpecPlain == InitPlain /\ [][Next]_vars

SpecRedirect == InitRedirect /\ [][Next]_vars

\* tokenize_command_line runs on the calling thread until it returns or
\* raises: an iteration that can be taken is taken.
\* The store alone, on a parser that is given nothing to do.
InitStore == InitOver({<<>>}, {TRUE})

SpecStore == InitStore /\ [][NextStore]_vars

\* After the first next_token call on a control run, which split the run
\* and pushed the operators behind the first back onto the lexer: the
\* splitter applied to the run, to each pushed-back operator and to the
\* pushed-back operators concatenated in their order.
Replay ==
    /\ pc = "tokenize"
    /\ Len(tokens) = 1
    /\ ~replay.done
    /\ replay' = [done |-> TRUE,
                  valid |-> get_valid_controls(source),
                  remainder |-> parser.lex.pushback,
                  each |-> [i \in DOMAIN parser.lex.pushback |->
                               get_valid_controls(parser.lex.pushback[i])],
                  rest |-> get_valid_controls(Concat(parser.lex.pushback))]
    /\ UNCHANGED <<source, posix, pc, parser, tokens, outcome, tree, part, dumps, visits>>
    /\ UNCHANGED storevars

\* The tokenizing of a control run.
NextControl == TokenizeStep \/ Replay

SpecControl == InitControl /\ [][NextControl]_vars

\* tokenize_command_line alone, in both posix settings.
NextTokenize == TokenizeStep

SpecTokenize == InitTokenize /\ [][NextTokenize]_vars

\* ------------------------------------------------------- reading the tree
\* The children of a node, in document order.
Children(node) ==
    IF node.kind \in {"list", "pipeline", "command"} THEN node.parts
    ELSE IF node.kind = "compound" THEN <<node.list>> \o node.redirects
    ELSE <<>>

\* Every node of the tree under node, parents first, in document order.
RECURSIVE AllNodes(_)
RECURSIVE AllNodesOf(_, _)
AllNodes(node) == <<node>> \o AllNodesOf(Children(node), 1)

AllNodesOf(xs, k) ==
    IF k > Len(xs) THEN <<>> ELSE AllNodes(xs[k]) \o AllNodesOf(xs, k + 1)

\* The tree parse returned (NoNode and no nodes unless parse returned).
Returned == pc = "parsed" /\ Len(dumps) = 0

Ast == IF Returned THEN AllNodes(tree) ELSE <<>>

IsLeaf(node) == node.kind \in {"word", "redirect"}

\* ------------------------------------------------------------- the claims

\* C1, read as a procedure over the classified tokens of one simple command:
\* a word or a number is a part of the command; a '>' or '>>' with no blank
\* before it that comes right after a bare word which is a positive integer
\* takes that word out of the parts as its fd and starts where the word
\* starts; any other '>' or '>>' (a blank before it, or the target of an
\* earlier redirection before it) has fd 1, takes no word and starts at the
\* operator.  bare says that the last part is a word no redirection owns.
PartShape(kind, fd, text, start) ==
    [kind |-> kind, fd |-> fd, text |-> text, start |-> start]

RECURSIVE ClaimedParts(_, _, _, _)
ClaimedParts(ts, k, parts, bare) ==
    IF k > Len(ts) THEN parts
    ELSE LET tk == ts[k] IN
         IF tk.type \in {"word", "number"}
         THEN ClaimedParts(ts, k + 1,
                           Append(parts, PartShape("word", 0, tk.t, tk.start)), TRUE)
         ELSE IF tk.type \in {">", ">>"}
         THEN LET last  == parts[Len(parts)]
                  takes == /\ tk.preceding = ""
                           /\ bare
                           /\ IsInt(last.text)
                           /\ IntOf(last.text) > 0
                  rest  == IF takes THEN SubSeq(parts, 1, Len(parts) - 1) ELSE parts
                  fd    == IF takes THEN IntOf(last.text) ELSE 1
                  start == IF takes THEN last.start ELSE tk.start
                  step  == IF k < Len(ts) /\ ts[k + 1].type = "&" THEN 3 ELSE 2
              IN ClaimedParts(ts, k + step,
                              Append(rest, PartShape("redirect", fd, <<>>, start)), FALSE)
         ELSE parts

\* The classified tokens of the source up to end-of-input (or a failure).
RECURSIVE TokensFrom(_, _, _)
TokensAfter(src, px, n) ==
    IF Fail(n) \/ n.tok.type = "None" THEN <<>>
    ELSE <<n.tok>> \o TokensFrom(src, px, n.p)

TokensFrom(src, px, P) == TokensAfter(src, px, next_token(src, px, P))

ShapeOf(node) ==
    IF node.kind = "redirect" THEN PartShape("redirect", node.input, <<>>, node.pos[1])
    ELSE PartShape("word", 0, node.word, node.pos[1])

\* C1: when parse returns a simple command, its parts are the words and the
\* redirects the fd inference rule gives for its tokens, each redirect with
\* the fd and the start the rule gives it.
C1_FdInference ==
    (Returned /\ tree.kind = "command") =>
        [k \in DOMAIN tree.parts |-> ShapeOf(tree.parts[k])]
            = ClaimedParts(TokensFrom(source, posix, ParserInit), 1, <<>>, FALSE)

\* C2: in a returned tree, a list whose last part is an operator (a dangling
\* terminator, no pipeline after it) ends with ';' or '&', never with '&&'
\* or '||'.
C2_DanglingTerminator ==
    \A k \in DOMAIN Ast :
        LET node == Ast[k] IN
        (node.kind = "list" /\ node.parts[Len(node.parts)].kind = "operator")
            => node.parts[Len(node.parts)].op \in {";", "&"}

\* C3: when parse fails, the failure is a ParsingError that carries the
\* message, the source and an offset into it.
C3_SingleErrorType ==
    pc = "parse_raised" =>
        /\ outcome.err.type = "ParsingError"
        /\ outcome.err.source = source

\* C4: when parse returns a tree, the lookahead is end-of-input: every token
\* of the source was consumed.
C4_AllOrNothing ==
    pc = "parsed" => outcome.p.peek.type = "None"

\* C5: dump leaves the tree as it was: after any number of calls every node
\* still has its kind, every call returned a text, all the same, and the
\* tree can still be visited.
C5_DumpReadOnly ==
    (pc = "parsed" /\ Len(dumps) > 0) =>
        /\ \A k \in DOMAIN dumps : dumps[k].err.type = "none"
        /\ HasKind(tree)
        /\ \A k \in DOMAIN dumps : dumps[k].text = dumps[1].text
        /\ visit(tree) = "none"

\* C6: a missing redirection target raises 'syntax: expecting filename or &',
\* a missing number after '&' raises 'syntax: number expected after &', and
\* the offset of either is where the offending token (the lookahead, the
\* token the lexer returned last) starts in the source.
TargetErrors == {"syntax: expecting filename or &", "syntax: number expected after &"}

C6_TargetErrorOffset ==
    (pc = "parse_raised" /\ outcome.err.msg \in TargetErrors) =>
        /\ outcome.err.type = "ParsingError"
        /\ outcome.err.offset = outcome.p.lex.tokstart

\* C7: in a returned tree the span of a list, a pipeline and a command runs
\* from its first child's start to its last child's end and holds the span
\* of each of its children.
SpanHolds(node) ==
    /\ node.pos[1] = node.parts[1].pos[1]
    /\ node.pos[2] = node.parts[Len(node.parts)].pos[2]
    /\ \A j \in DOMAIN node.parts :
          /\ node.pos[1] <= node.parts[j].pos[1]
          /\ node.parts[j].pos[2] <= node.pos[2]

C7_ParentSpan ==
    \A k \in DOMAIN Ast :
        Ast[k].kind \in {"list", "pipeline", "command"} => SpanHolds(Ast[k])

\* C8: a command node of a returned tree has at least one part, and
\* parse_command_part, when it returns, returns at least one node.
C8_CommandNotEmpty ==
    /\ \A k \in DOMAIN Ast : Ast[k].kind = "command" => Len(Ast[k].parts) > 0
    /\ pc = "part" => Len(part) > 0

\* C8, the case: parse_command_part returned with the leading word taken as
\* the fd of a redirection (no word node left among the parts).
C8_Witness ==
    /\ pc = "part"
    /\ Len(part) > 0
    /\ \A k \in DOMAIN part : part[k].kind = "redirect"
    /\ part[1].input = 2

\* C9: the leaves (words and redirects) of a returned tree do not overlap:
\* of two leaves in document order the earlier one ends at or before the
\* start of the later one.
C9_LeavesDisjoint ==
    \A j, k \in DOMAIN Ast :
        (j < k /\ IsLeaf(Ast[j]) /\ IsLeaf(Ast[k])) => Ast[j].pos[2] <= Ast[k].pos[1]

\* C10: no token of the sequence tokenize_command_line returns has an empty
\* text.
C10_NoEmptyToken ==
    pc = "tokenized" => \A k \in DOMAIN tokens : Len(tokens[k].t) > 0

\* The token collected last is the end-of-input token: its text is empty
\* and the lexer read it at the end of the source.
EndOfInputCollected ==
    /\ Len(tokens) > 0
    /\ tokens[Len(tokens)].t = <<>>
    /\ tokens[Len(tokens)].type = "None"
    /\ parser.lex.tokstart = Len(source)
    /\ parser.lex.pushback = <<>>

\* C11: tokenize_command_line stops once the lexer reports end-of-input, in
\* either posix setting: while its loop goes on, the end-of-input token has
\* not been collected (a loop that collects it asks the lexer again, gets
\* it again, and never returns).
C11_TokenizeTerminates ==
    pc = "tokenize" => ~EndOfInputCollected

\* The mappings of name, and the documents of the manpage collection.
MappingsOf(name) == {k \in DOMAIN mapping : mapping[k].src = name}

\* The pages findmanpage returned are the documents the mappings of name
\* point to, each once, in an order of non-increasing mapping score.
RankedPages(name, pages) ==
    /\ Len(pages) > 0
    /\ {pages[i].id : i \in DOMAIN pages} = {mapping[k].dst : k \in MappingsOf(name)}
    /\ \A i, j \in DOMAIN pages : i # j => pages[i].id # pages[j].id
    /\ \A i \in DOMAIN pages : \E k \in DOMAIN manpage : manpage[k] = pages[i]
    /\ \A i, j \in DOMAIN pages : \A k, l \in MappingsOf(name) :
          (i < j /\ mapping[k].dst = pages[i].id /\ mapping[l].dst = pages[j].id)
              => mapping[k].score >= mapping[l].score

RECURSIVE AliasesOf(_, _)
AliasesOf(maps, id) ==
    IF Len(maps) = 0 THEN <<>>
    ELSE (IF maps[1].dst = id THEN <<<<maps[1].src, maps[1].score>>>> ELSE <<>>)
         \o AliasesOf(Tail(maps), id)

\* C13: after any sequence of addmanpage calls on an empty store the manpage
\* collection has at most one document per source, every mapping points to
\* a document of the collection, and the mappings that point to a document
\* are those of its aliases, one per alias.
C13_OnePagePerSource ==
    /\ \A i, j \in DOMAIN manpage :
          manpage[i].source = manpage[j].source => i = j
    /\ \A k \in DOMAIN mapping : \E i \in DOMAIN manpage : manpage[i].id = mapping[k].dst
    /\ \A i \in DOMAIN manpage : AliasesOf(mapping, manpage[i].id) = manpage[i].aliases

\* C13, the case: a man page was added again (its document has the second
\* _id and is the only one), and the collection of mappings holds the
\* mapping of its one alias and no other.
C13_Witness ==
    /\ nextid = 3
    /\ Len(manpage) = 1
    /\ manpage[1].id = 2
    /\ Len(manpage[1].aliases) = 1
    /\ Len(mapping) = 1

\* The pairing C14 describes, from the k-th character of the run t: the
\* characters are taken two by two from the left, a pair that is one of
\* '&&', '||', '|&', '>>' is one operator, the characters of any other pair
\* and a last character without a partner are operators of their own.
RECURSIVE GreedyPairs(_, _)
GreedyPairs(t, k) ==
    IF k > Len(t) THEN <<>>
    ELSE IF k = Len(t) THEN <<<<t[k]>>>>
    ELSE IF <<t[k], t[k + 1]>> \in {<<"&", "&">>, <<"|", "|">>, <<"|", "&">>, <<">", ">">>}
    THEN <<<<t[k], t[k + 1]>>>> \o GreedyPairs(t, k + 2)
    ELSE <<<<t[k]>>, <<t[k + 1]>>>> \o GreedyPairs(t, k + 2)

\* The texts of the tokens collected so far.
TokenTexts == [k \in DOMAIN tokens |-> tokens[k].t]

\* C14: for a source that is one control run over '>', '&', '|' of length
\* > 1, the tokens successive next_token calls have emitted are, in order,
\* the first operators of the pairing of the run, each with its text as its
\* type; when end-of-input is reached they are all of them, and their
\* concatenation is the run.
C14_ControlRunOrder ==
    (Len(source) > 1 /\ pc \in {"tokenize", "tokenized"}) =>
        /\ Len(tokens) <= Len(GreedyPairs(source, 1))
        /\ TokenTexts = SubSeq(GreedyPairs(source, 1), 1, Len(tokens))
        /\ \A k \in DOMAIN tokens : tokens[k].type = Join(tokens[k].t)
        /\ pc = "tokenized" =>
              /\ Len(tokens) = Len(GreedyPairs(source, 1))
              /\ Concat(TokenTexts) = source

\* C14, the case: the run '>>>' was tokenized to its end and gave '>>' and
\* then '>'.
C14_Witness ==
    /\ pc = "tokenized"
    /\ source = <<">", ">", ">">>
    /\ TokenTexts = <<<<">", ">">>, <<">">>>>

\* C15 as claimed: with [o1, ..., on] the split of a control run, the
\* operators pushed back are o2 ... on, the splitter applied to each of
\* them returns that operator alone, and applied to their concatenation it
\* returns [o2, ..., on].
C15_ReplayIdempotent ==
    replay.done =>
        /\ replay.remainder = Tail(replay.valid)
        /\ \A i \in DOMAIN replay.remainder : replay.each[i] = <<replay.remainder[i]>>
        /\ replay.rest = replay.remainder

\* C15 as amended: the splitter applied to each pushed-back operator
\* returns that operator alone; applied to the concatenation of the
\* pushed-back operators it returns [o2, ..., on] when o1 is one of the
\* two-character operators, so that the remainder starts where a pair
\* starts.
C15_ReplayEachOperator ==
    replay.done =>
        /\ replay.remainder = Tail(replay.valid)
        /\ \A i \in DOMAIN replay.remainder : replay.each[i] = <<replay.remainder[i]>>
        /\ Len(replay.valid[1]) = 2 => replay.rest = replay.remainder

\* C15, the case: a run whose first operator has two characters and whose
\* remainder holds a two-character operator and a single one.
C15_Witness ==
    /\ replay.done
    /\ Len(replay.valid[1]) = 2
    /\ Len(replay.remainder) = 2
    /\ Len(replay.remainder[1]) = 2
    /\ replay.rest = replay.remainder

====
